---- MODULE Spec2Model ----
(***************************************************************************)
(* Single-cell RNA-seq matrix codec: Elias-Fano index coder, zig-zag       *)
(* varint / DEFLATE delta coder, Jaccard reference selection and the       *)
(* parallel Decompress driver, modelled from the Go sources.               *)
(*                                                                         *)
(* Byte strings are sequences of naturals in 0..255.  uint32 quantities    *)
(* that stay small are naturals; where the full 32-bit width matters (the  *)
(* varint codec) a uint32 is a sequence of 32 bits, least significant      *)
(* first.  A 64-bit word array is the set of its set bit positions.        *)
(***************************************************************************)
EXTENDS Integers, Sequences, FiniteSets, TLC

(***************************************************************************)
(* Arithmetic helpers.                                                     *)
(***************************************************************************)
RECURSIVE Pow2(_)
Pow2(n) == IF n = 0 THEN 1 ELSE 2 * Pow2(n - 1)

Min(a, b) == IF a < b THEN a ELSE b

RECURSIVE SumSeq(_)
SumSeq(s) == IF s = <<>> THEN 0 ELSE Head(s) + SumSeq(Tail(s))

RECURSIVE Concat(_)
Concat(ss) == IF ss = <<>> THEN <<>> ELSE Head(ss) \o Concat(Tail(ss))

\* s[from+1 .. Len(s)], the part of a byte string not yet consumed
Drop(s, n) == IF n >= Len(s) THEN <<>> ELSE SubSeq(s, n + 1, Len(s))

\* the ascending sequence of the elements of a finite set of naturals
RECURSIVE SortedSeq(_)
SortedSeq(S) ==
    IF S = {} THEN <<>>
    ELSE LET m == CHOOSE x \in S : \A y \in S : x <= y
         IN  <<m>> \o SortedSeq(S \ {m})

Range(s) == {s[i] : i \in 1..Len(s)}

\* binary.Write / binary.Read of a uint32, little endian
LE32(v) == << v % 256, (v \div 256) % 256, (v \div 65536) % 256, (v \div 16777216) % 256 >>

\* the value of 4 little-endian bytes; the model only reads values below 2^31
FromLE32(b) == b[1] + 256 * b[2] + 65536 * b[3] + 16777216 * b[4]

(***************************************************************************)
(* BitArray: Size bits packed in ceil(Size/64) 64-bit words.  Bits is the  *)
(* set of positions of the set bits of Data (bit p is bit p%64 of word     *)
(* p/64).                                                                  *)
(***************************************************************************)
WordBits == 64

NumWords(size) == (size + 63) \div WordBits

NewBitArray(size) == [Size |-> size, Bits |-> {}]

SetBit(ba, pos) ==
    IF pos >= ba.Size THEN ba ELSE [ba EXCEPT !.Bits = @ \cup {pos}]

GetBit(ba, pos) == IF pos >= ba.Size THEN FALSE ELSE pos \in ba.Bits

\* the bit i of a natural value
BitOf(value, i) == (value \div Pow2(i)) % 2

\* WriteBits: SetBit(pos + i) for every set bit i < numBits of value
WriteBits(ba, pos, value, numBits) ==
    [ba EXCEPT !.Bits = @ \cup {pos + i : i \in {j \in 0..(numBits - 1) :
                                                 BitOf(value, j) # 0 /\ pos + j < ba.Size}}]

RECURSIVE ReadBitsFrom(_, _, _, _)
ReadBitsFrom(ba, pos, numBits, i) ==
    IF i >= numBits THEN 0
    ELSE (IF GetBit(ba, pos + i) THEN Pow2(i) ELSE 0) + ReadBitsFrom(ba, pos, numBits, i + 1)

ReadBits(ba, pos, numBits) == ReadBitsFrom(ba, pos, numBits, 0)

\* byte j (from 0) of the little-endian word storage
DataByte(ba, j) == SumSeq([b \in 1..8 |-> IF (8 * j + b - 1) \in ba.Bits THEN Pow2(b - 1) ELSE 0])

\* WriteTo: Size as uint32, then every word, little endian
WriteTo(ba) ==
    LE32(ba.Size) \o [j \in 1..(8 * NumWords(ba.Size)) |-> DataByte(ba, j - 1)]

\* ReadFrom: [err, ba, rest]; binary.Read fails when the bytes run out
ReadFrom(bytes) ==
    IF Len(bytes) < 4 THEN [err |-> TRUE, ba |-> NewBitArray(0), rest |-> <<>>]
    ELSE LET size == FromLE32(bytes)
             n    == 8 * NumWords(size)
             body == Drop(bytes, 4)
         IN  IF Len(body) < n
             THEN [err |-> TRUE, ba |-> NewBitArray(0), rest |-> <<>>]
             ELSE [err  |-> FALSE,
                   ba   |-> [Size |-> size,
                             Bits |-> {p \in 0..(8 * n - 1) :
                                         BitOf(body[(p \div 8) + 1], p % 8) = 1}],
                   rest |-> Drop(body, n)]

(***************************************************************************)
(* Elias-Fano codec (elias_fano.go).                                       *)
(***************************************************************************)
EFHeaderLen == 12

\* the loop "for (1 << lowBits) < ratio { lowBits++ }"
RECURSIVE LowBitsLoop(_, _)
LowBitsLoop(lowBits, ratio) ==
    IF Pow2(lowBits) < ratio THEN LowBitsLoop(lowBits + 1, ratio) ELSE lowBits

NewEliasEncoder(universe, count) ==
    LET grown   == IF count > 0 /\ universe > count
                   THEN LowBitsLoop(0, universe \div count)
                   ELSE 0
        lowBits == IF grown > 0 THEN grown - 1 ELSE 0
    IN  [universe |-> universe, count |-> count, lowBits |-> lowBits]

\* the validation loop of Encode: TRUE when some value is out of the universe or
\* not above its predecessor
EncodeInvalid(e, sequence) ==
    \E i \in 1..Len(sequence) :
        \/ sequence[i] >= e.universe
        \/ (i > 1 /\ sequence[i] <= sequence[i - 1])

RECURSIVE EncodeLow(_, _, _, _)
EncodeLow(e, sequence, i, lowArray) ==
    IF i > Len(sequence) THEN lowArray
    ELSE EncodeLow(e, sequence, i + 1,
                   WriteBits(lowArray, (i - 1) * e.lowBits,
                             sequence[i] % Pow2(e.lowBits), e.lowBits))

\* the unary loop of Encode: pos is never reset between elements
RECURSIVE EncodeHigh(_, _, _, _, _)
EncodeHigh(e, sequence, i, pos, highArray) ==
    IF i > Len(sequence) THEN highArray
    ELSE LET highValue == sequence[i] \div Pow2(e.lowBits)
             at        == pos + highValue
         IN  EncodeHigh(e, sequence, i + 1, at + 1,
                        IF at < highArray.Size THEN SetBit(highArray, at) ELSE highArray)

\* Encode: [err, bytes]
Encode(e, sequence) ==
    IF Len(sequence) = 0 THEN [err |-> FALSE, bytes |-> <<>>]
    ELSE IF Len(sequence) # e.count THEN [err |-> TRUE, bytes |-> <<>>]
    ELSE IF EncodeInvalid(e, sequence) THEN [err |-> TRUE, bytes |-> <<>>]
    ELSE LET header    == LE32(e.universe) \o LE32(e.count) \o LE32(e.lowBits)
             lowArray  == EncodeLow(e, sequence, 1, NewBitArray(e.count * e.lowBits))
             highSize  == e.count + (e.universe \div Pow2(e.lowBits)) + 1
             highArray == EncodeHigh(e, sequence, 1, 0, NewBitArray(highSize))
         IN  [err |-> FALSE, bytes |-> header \o WriteTo(lowArray) \o WriteTo(highArray)]

NoDecoder ==
    [universe |-> 0, count |-> 0, lowBits |-> 0,
     lowArray |-> NewBitArray(0), highArray |-> NewBitArray(0)]

\* NewEliasDecoder: [err, d]
NewEliasDecoder(data) ==
    IF Len(data) < EFHeaderLen THEN [err |-> TRUE, d |-> NoDecoder]
    ELSE LET universe == FromLE32(SubSeq(data, 1, 4))
             count    == FromLE32(SubSeq(data, 5, 8))
             lowBits  == FromLE32(SubSeq(data, 9, 12))
             hdr      == [NoDecoder EXCEPT !.universe = universe, !.count = count,
                                           !.lowBits = lowBits]
         IN  IF count = 0 THEN [err |-> FALSE, d |-> hdr]
             ELSE LET low == ReadFrom(Drop(data, EFHeaderLen))
                  IN  IF low.err THEN [err |-> TRUE, d |-> NoDecoder]
                      ELSE LET high == ReadFrom(low.rest)
                           IN  IF high.err THEN [err |-> TRUE, d |-> NoDecoder]
                               ELSE [err |-> FALSE,
                                     d   |-> [hdr EXCEPT !.lowArray = low.ba,
                                                         !.highArray = high.ba]]

\* "for highPos < Size && !GetBit(highPos) { highPos++; currentHigh++ }"
RECURSIVE SkipZeros(_, _)
SkipZeros(ba, pos) ==
    IF pos < ba.Size /\ ~GetBit(ba, pos) THEN SkipZeros(ba, pos + 1) ELSE pos

RECURSIVE DecodeLoop(_, _, _, _, _)
DecodeLoop(d, i, highPos, currentHigh, result) ==
    IF i >= d.count THEN [err |-> FALSE, seq |-> result]
    ELSE LET at   == SkipZeros(d.highArray, highPos)
             high == currentHigh + (at - highPos)
         IN  IF at >= d.highArray.Size THEN [err |-> TRUE, seq |-> <<>>]
             ELSE DecodeLoop(d, i + 1, at + 1, high,
                             Append(result,
                                    high * Pow2(d.lowBits)
                                      + ReadBits(d.lowArray, i * d.lowBits, d.lowBits)))

\* Decode: [err, seq]
Decode(d) ==
    IF d.count = 0 THEN [err |-> FALSE, seq |-> <<>>]
    ELSE DecodeLoop(d, 0, 0, 0, <<>>)

RECURSIVE findHighValueLoop(_, _, _, _)
findHighValueLoop(d, index, pos, setBitsCount) ==
    IF ~(pos < d.highArray.Size /\ setBitsCount <= index) THEN 0
    ELSE IF GetBit(d.highArray, pos)
         THEN IF setBitsCount = index THEN pos - setBitsCount
              ELSE findHighValueLoop(d, index, pos + 1, setBitsCount + 1)
         ELSE findHighValueLoop(d, index, pos + 1, setBitsCount)

findHighValue(d, index) == findHighValueLoop(d, index, 0, 0)

\* Access: [err, value]
Access(d, index) ==
    IF index >= d.count THEN [err |-> TRUE, value |-> 0]
    ELSE IF d.count = 0 THEN [err |-> TRUE, value |-> 0]
    ELSE [err   |-> FALSE,
          value |-> findHighValue(d, index) * Pow2(d.lowBits)
                      + ReadBits(d.lowArray, index * d.lowBits, d.lowBits)]

(***************************************************************************)
(* Zig-zag varint codec (delta_encoding.go).  An int32 is an integer in    *)
(* Int32Min..Int32Max; a uint32 is a sequence of 32 bits, index 1 the      *)
(* least significant, so that shifts and xor wrap as they do in Go.        *)
(***************************************************************************)
UintBits == 32

Int32Max == 2147483647

Int32Min == (-Int32Max) - 1

\* the low 31 bits of a natural below 2^31, then a given top bit
LowBitsThen(n, top) == [i \in 1..UintBits |-> IF i = UintBits THEN top ELSE BitOf(n, i - 1)]

\* the two's complement bit pattern of an int32
Bits32(v) ==
    IF v >= 0 THEN LowBitsThen(v, 0)
    ELSE LET m == LowBitsThen(-(v + 1), 0) IN [i \in 1..UintBits |-> 1 - m[i]]

\* int32(u): the signed value of a bit pattern
Int32Of(u) ==
    IF u[UintBits] = 0
    THEN SumSeq([i \in 1..(UintBits - 1) |-> u[i] * Pow2(i - 1)])
    ELSE (-SumSeq([i \in 1..(UintBits - 1) |-> (1 - u[i]) * Pow2(i - 1)])) - 1

Xor32(a, b) == [i \in 1..UintBits |-> (a[i] + b[i]) % 2]

Or32(a, b) == [i \in 1..UintBits |-> IF a[i] + b[i] > 0 THEN 1 ELSE 0]

\* u << n on uint32 (bits shifted past the top are lost)
Shl32(u, n) == [i \in 1..UintBits |-> IF i - n >= 1 THEN u[i - n] ELSE 0]

\* u >> n on uint32 (logical)
Shr32(u, n) == [i \in 1..UintBits |-> IF i + n <= UintBits THEN u[i + n] ELSE 0]

\* v >> 31 on int32 (arithmetic): every bit is the sign bit
Sar31(u) == [i \in 1..UintBits |-> u[UintBits]]

\* byte(u): the low 8 bits
ByteOf(u) == SumSeq([i \in 1..8 |-> u[i] * Pow2(i - 1)])

\* uint32(b) for a byte b
Uint32OfByte(b) == [i \in 1..UintBits |-> IF i <= 8 THEN BitOf(b, i - 1) ELSE 0]

\* uvalue > 0x80 in place of uvalue >= 0x80
Above0x80(u) == (\E i \in 9..UintBits : u[i] = 1) \/ (u[8] = 1 /\ \E i \in 1..7 : u[i] = 1)

\* uvalue >= 0x80
AtLeast0x80(u) == \E i \in 8..UintBits : u[i] = 1

\* uint32((value << 1) ^ (value >> 31))
ZigZag(value) == Xor32(Shl32(Bits32(value), 1), Sar31(Bits32(value)))

RECURSIVE writeVarintLoop(_)
writeVarintLoop(uvalue) ==
    IF AtLeast0x80(uvalue)
    THEN <<(ByteOf(uvalue) % 128) + 128>> \o writeVarintLoop(Shr32(uvalue, 7))
    ELSE <<ByteOf(uvalue)>>

\* writeVarint: the bytes appended to the buffer
writeVarint(value) == writeVarintLoop(ZigZag(value))

VarintMaxShift == 32

RECURSIVE readVarintLoop(_, _, _)
readVarintLoop(buf, uvalue, shift) ==
    IF buf = <<>> THEN [err |-> TRUE, uvalue |-> uvalue, rest |-> <<>>]
    ELSE LET b   == Head(buf)
             acc == Or32(uvalue, Shl32(Uint32OfByte(b % 128), shift))
         IN  IF b < 128 THEN [err |-> FALSE, uvalue |-> acc, rest |-> Tail(buf)]
             ELSE IF shift + 7 >= VarintMaxShift
                  THEN [err |-> TRUE, uvalue |-> acc, rest |-> Tail(buf)]
                  ELSE readVarintLoop(Tail(buf), acc, shift + 7)

\* readVarint: [err, value, rest]; value is int32((uvalue >> 1) ^ -(uvalue & 1))
readVarint(buf) ==
    LET r == readVarintLoop(buf, Bits32(0), 0)
    IN  IF r.err THEN [err |-> TRUE, value |-> 0, rest |-> r.rest]
        ELSE [err   |-> FALSE,
              value |-> Int32Of(Xor32(Shr32(r.uvalue, 1),
                                      [i \in 1..UintBits |-> r.uvalue[1]])),
              rest  |-> r.rest]

(***************************************************************************)
(* Reference selection (delta_encoding.go).  A SparseRow is a record       *)
(* [Indices, Values] of two sequences.  A float64 similarity is the exact  *)
(* fraction [num, den]: float64(i)/float64(u) is the correctly rounded     *)
(* quotient, so for counts far below 2^53 two quotients compare as the     *)
(* fractions do, and i/u > 0.1 exactly when 10*i > u (1/10 rounds to the   *)
(* constant 0.1 itself).                                                   *)
(***************************************************************************)
ZeroRow == [Indices |-> <<>>, Values |-> <<>>]

Frac(n, d) == [num |-> n, den |-> d]

\* a > b for fractions with positive denominators
FracGt(a, b) == a.num * b.den > b.num * a.den

\* similarity > 0.1
AboveThreshold(a) == FracGt(a, Frac(1, 10))

\* JaccardSimilarity with line 50 not subtracting the intersection
JaccardDoubleCount(genesA, genesB) ==
    IF Len(genesA) = 0 /\ Len(genesB) = 0 THEN Frac(1, 1)
    ELSE IF Len(genesA) = 0 \/ Len(genesB) = 0 THEN Frac(0, 1)
    ELSE Frac(Cardinality({i \in 1..Len(genesB) : genesB[i] \in Range(genesA)}),
              Cardinality(Range(genesA)) + Cardinality(Range(genesB)))

JaccardSimilarity(genesA, genesB) ==
    IF Len(genesA) = 0 /\ Len(genesB) = 0 THEN Frac(1, 1)
    ELSE IF Len(genesA) = 0 \/ Len(genesB) = 0 THEN Frac(0, 1)
    ELSE LET setA         == Range(genesA)
             setB         == Range(genesB)
             intersection == Cardinality({i \in 1..Len(genesB) : genesB[i] \in setA})
             union        == Cardinality(setA) + Cardinality(setB) - intersection
         IN  IF union = 0 THEN Frac(1, 1) ELSE Frac(intersection, union)

\* the test of the loop with >= in place of the first >: a tie goes to the later candidate
TakesCandidateOnTie(similarity, bestSimilarity) ==
    ~FracGt(bestSimilarity, similarity) /\ AboveThreshold(similarity)

\* one iteration of the loop of FindBestReference
TakesCandidate(similarity, bestSimilarity) ==
    FracGt(similarity, bestSimilarity) /\ AboveThreshold(similarity)

RECURSIVE FindBestLoop(_, _, _, _, _, _)
FindBestLoop(targetCell, candidates, candidateIndices, i, bestSimilarity, bestIndex) ==
    IF i > Len(candidates) THEN bestIndex
    ELSE LET similarity == JaccardSimilarity(targetCell.Indices, candidates[i].Indices)
         IN  IF TakesCandidate(similarity, bestSimilarity)
             THEN FindBestLoop(targetCell, candidates, candidateIndices, i + 1,
                               similarity, candidateIndices[i])
             ELSE FindBestLoop(targetCell, candidates, candidateIndices, i + 1,
                               bestSimilarity, bestIndex)

FindBestReference(targetCell, candidates, candidateIndices) ==
    IF Len(candidates) = 0 THEN -1
    ELSE FindBestLoop(targetCell, candidates, candidateIndices, 1, Frac(-1, 1), -1)

(***************************************************************************)
(* Delta codec (delta_encoding.go).                                        *)
(***************************************************************************)
\* the map built from a row: gene -> value, a later duplicate overwriting
MapGet(row, gene) ==
    LET at == {i \in 1..Len(row.Indices) : row.Indices[i] = gene}
    IN  IF at = {} THEN 0
        ELSE row.Values[CHOOSE i \in at : \A j \in at : j <= i]

Abs(x) == IF x < 0 THEN -x ELSE x

NewDeltaEncoder(lossy, threshold, quantLevels) ==
    [lossy |-> lossy, threshold |-> threshold, quantLevels |-> quantLevels]

\* the encoder of lossless mode; threshold is the fraction 1/10 of the CLI default
LosslessEncoder == NewDeltaEncoder(FALSE, Frac(1, 10), 256)

\* the sorted union of the genes of two rows
UnionGenes(a, b) == SortedSeq(Range(a.Indices) \cup Range(b.Indices))

ComputeDelta(de, target, reference) ==
    LET genes == UnionGenes(target, reference)
    IN  [i \in 1..Len(genes) |->
            LET delta == MapGet(target, genes[i]) - MapGet(reference, genes[i])
            IN  IF de.lossy /\ Abs(delta) * de.threshold.den < de.threshold.num
                THEN 0 ELSE delta]

RECURSIVE ReconstructLoop(_, _, _, _)
ReconstructLoop(reference, deltas, geneIndices, i) ==
    IF i > Len(geneIndices) \/ i > Len(deltas) THEN ZeroRow
    ELSE LET newVal == MapGet(reference, geneIndices[i]) + deltas[i]
             rest   == ReconstructLoop(reference, deltas, geneIndices, i + 1)
         IN  IF newVal > 0
             THEN [Indices |-> <<geneIndices[i]>> \o rest.Indices,
                   Values  |-> <<newVal>> \o rest.Values]
             ELSE rest

ReconstructFromDelta(reference, deltas, geneIndices) ==
    ReconstructLoop(reference, deltas, geneIndices, 1)

\* what flate.Writer.Close writes when nothing was written to the writer: one
\* final stored block of length 0
EmptyDeflate == <<1, 0, 0, 255, 255>>

\* CompressDeltas: the varints go to buf itself, not through the flate writer,
\* whose Close then appends its empty stream to buf
CompressDeltas(deltas) ==
    IF Len(deltas) = 0 THEN <<>>
    ELSE Concat([i \in 1..Len(deltas) |-> writeVarint(deltas[i])]) \o EmptyDeflate

(***************************************************************************)
(* flate.NewReader(buf) read to the end (compress/flate, RFC 1951):        *)
(* [err, out].  bs is the input as bits, least significant bit of each     *)
(* byte first; p counts the bits consumed.  Every failure (corrupt input,  *)
(* unexpected end) is err: DecompressDeltas tells them no further apart.   *)
(***************************************************************************)
BitsOfBytes(bytes) == [k \in 1..(8 * Len(bytes)) |-> BitOf(bytes[((k - 1) \div 8) + 1], (k - 1) % 8)]

\* n bits from p, the first read the least significant
TakeBits(bs, p, n) == SumSeq([i \in 1..n |-> bs[p + i] * Pow2(i - 1)])

MaxCodeLen == 15

MaxOf(S) == IF S = {} THEN 0 ELSE CHOOSE x \in S : \A y \in S : y <= x

\* huffmanDecoder.init: an empty code, a complete code, or the single code of length 1
HuffInit(lens) ==
    LET used == {i \in 1..Len(lens) : lens[i] > 0}
        max  == MaxOf({lens[i] : i \in used})
        code == SumSeq([i \in 1..Len(lens) |-> IF lens[i] > 0 THEN Pow2(max - lens[i]) ELSE 0])
    IN  max = 0 \/ code = Pow2(max) \/ (code = 1 /\ max = 1)

\* huffSym: decode one symbol of the canonical code with these lengths
RECURSIVE HuffSymLoop(_, _, _, _, _, _)
HuffSymLoop(bs, p, lens, len, code, first) ==
    IF len > MaxCodeLen \/ p >= Len(bs) THEN [err |-> TRUE, sym |-> 0, p |-> p]
    ELSE LET c     == code + bs[p + 1]
             with  == {i \in 1..Len(lens) : lens[i] = len}
             count == Cardinality(with)
         IN  IF c - count < first
             THEN [err |-> FALSE, p |-> p + 1,
                   sym |-> (CHOOSE i \in with :
                               Cardinality({j \in with : j < i}) = c - first) - 1]
             ELSE HuffSymLoop(bs, p + 1, lens, len + 1, 2 * c, 2 * (first + count))

HuffSym(bs, p, lens) == HuffSymLoop(bs, p, lens, 1, 0, 0)

EndBlockMarker == 256
MaxNumLit == 286
MaxNumDist == 30

FixedLitLens == [i \in 1..288 |-> IF i <= 144 THEN 8 ELSE IF i <= 256 THEN 9
                                  ELSE IF i <= 280 THEN 7 ELSE 8]

\* the fixed distance code: 5 bits, most significant first
FixedDistLens == [i \in 1..32 |-> 5]

\* [base, extra bits] of a length symbol 257..285
LengthCode(v) ==
    IF v < 265 THEN <<v - 254, 0>>
    ELSE IF v < 269 THEN <<2 * v - 519, 1>>
    ELSE IF v < 273 THEN <<4 * v - 1057, 2>>
    ELSE IF v < 277 THEN <<8 * v - 2149, 3>>
    ELSE IF v < 281 THEN <<16 * v - 4365, 4>>
    ELSE IF v < 285 THEN <<32 * v - 8861, 5>>
    ELSE <<258, 0>>

\* append length bytes copied from dist back, one by one (the copy may overlap)
RECURSIVE CopyBack(_, _, _)
CopyBack(out, dist, length) ==
    IF length = 0 THEN out
    ELSE CopyBack(Append(out, out[Len(out) - dist + 1]), dist, length - 1)

Fail(p, out) == [err |-> TRUE, p |-> p, out |-> out]

\* huffmanBlock: symbols up to the end-of-block marker
RECURSIVE HuffmanBlock(_, _, _, _, _)
HuffmanBlock(bs, p, out, litLens, distLens) ==
    LET s == HuffSym(bs, p, litLens)
    IN  IF s.err THEN Fail(p, out)
        ELSE IF s.sym < EndBlockMarker
             THEN HuffmanBlock(bs, s.p, Append(out, s.sym), litLens, distLens)
        ELSE IF s.sym = EndBlockMarker THEN [err |-> FALSE, p |-> s.p, out |-> out]
        ELSE IF s.sym >= MaxNumLit THEN Fail(p, out)
        ELSE LET lc == LengthCode(s.sym)
                 p1 == s.p + lc[2]
             IN  IF p1 > Len(bs) THEN Fail(p, out)
                 ELSE LET length == lc[1] + TakeBits(bs, s.p, lc[2])
                          d      == HuffSym(bs, p1, distLens)
                      IN  IF d.err \/ d.sym >= MaxNumDist THEN Fail(p, out)
                          ELSE LET nb   == IF d.sym < 4 THEN 0 ELSE (d.sym - 2) \div 2
                                   p2   == d.p + nb
                               IN  IF p2 > Len(bs) THEN Fail(p, out)
                                   ELSE LET dist == IF d.sym < 4 THEN d.sym + 1
                                                    ELSE Pow2(nb + 1) + 1 + (d.sym % 2) * Pow2(nb)
                                                           + TakeBits(bs, d.p, nb)
                                        IN  IF dist > Len(out) THEN Fail(p, out)
                                            ELSE HuffmanBlock(bs, p2, CopyBack(out, dist, length),
                                                              litLens, distLens)

\* dataBlock: a stored block; the rest of the current byte is skipped
DataBlock(bs, p, out) ==
    LET at == 8 * ((p + 7) \div 8)
    IN  IF at + 32 > Len(bs) THEN Fail(p, out)
        ELSE LET n  == TakeBits(bs, at, 16)
                 nn == TakeBits(bs, at + 16, 16)
             IN  IF nn # 65535 - n THEN Fail(p, out)
                 ELSE IF at + 32 + 8 * n > Len(bs) THEN Fail(p, out)
                 ELSE [err |-> FALSE, p |-> at + 32 + 8 * n,
                       out |-> out \o [i \in 1..n |-> TakeBits(bs, at + 32 + 8 * (i - 1), 8)]]

CodeOrder == <<16, 17, 18, 0, 8, 7, 9, 6, 10, 5, 11, 4, 12, 3, 13, 2, 14, 1, 15>>

\* the HLIT+257 and HDIST+1 code lengths, read with the code length code
RECURSIVE ReadCodeLens(_, _, _, _, _)
ReadCodeLens(bs, p, clLens, n, lens) ==
    IF Len(lens) >= n THEN [err |-> FALSE, p |-> p, lens |-> lens]
    ELSE LET x == HuffSym(bs, p, clLens)
         IN  IF x.err THEN [err |-> TRUE, p |-> p, lens |-> lens]
             ELSE IF x.sym < 16 THEN ReadCodeLens(bs, x.p, clLens, n, Append(lens, x.sym))
             ELSE IF x.sym = 16 /\ Len(lens) = 0 THEN [err |-> TRUE, p |-> p, lens |-> lens]
             ELSE LET nb   == IF x.sym = 16 THEN 2 ELSE IF x.sym = 17 THEN 3 ELSE 7
                      base == IF x.sym = 18 THEN 11 ELSE 3
                      b    == IF x.sym = 16 THEN lens[Len(lens)] ELSE 0
                  IN  IF x.p + nb > Len(bs) THEN [err |-> TRUE, p |-> p, lens |-> lens]
                      ELSE LET rep == base + TakeBits(bs, x.p, nb)
                           IN  IF Len(lens) + rep > n
                               THEN [err |-> TRUE, p |-> p, lens |-> lens]
                               ELSE ReadCodeLens(bs, x.p + nb, clLens, n,
                                                 lens \o [j \in 1..rep |-> b])

\* readHuffman followed by huffmanBlock: a block with dynamic codes
DynamicBlock(bs, p, out) ==
    IF p + 14 > Len(bs) THEN Fail(p, out)
    ELSE LET nlit  == TakeBits(bs, p, 5) + 257
             ndist == TakeBits(bs, p + 5, 5) + 1
             nclen == TakeBits(bs, p + 10, 4) + 4
             p1    == p + 14 + 3 * nclen
         IN  IF nlit > MaxNumLit \/ ndist > MaxNumDist \/ p1 > Len(bs) THEN Fail(p, out)
             ELSE LET clLens == [sym \in 1..19 |->
                                   LET at == {i \in 1..nclen : CodeOrder[i] = sym - 1}
                                   IN  IF at = {} THEN 0
                                       ELSE TakeBits(bs, p + 14 + 3 * ((CHOOSE i \in at : TRUE) - 1), 3)]
                  IN  IF ~HuffInit(clLens) THEN Fail(p, out)
                      ELSE LET r == ReadCodeLens(bs, p1, clLens, nlit + ndist, <<>>)
                           IN  IF r.err THEN Fail(p, out)
                               ELSE LET litLens  == SubSeq(r.lens, 1, nlit)
                                        distLens == SubSeq(r.lens, nlit + 1, nlit + ndist)
                                    IN  IF ~HuffInit(litLens) \/ ~HuffInit(distLens)
                                        THEN Fail(p, out)
                                        ELSE HuffmanBlock(bs, r.p, out, litLens, distLens)

\* nextBlock, until the final block is done
RECURSIVE InflateBlocks(_, _, _)
InflateBlocks(bs, p, out) ==
    IF p + 3 > Len(bs) THEN Fail(p, out)
    ELSE LET final == bs[p + 1] = 1
             typ   == TakeBits(bs, p + 1, 2)
             blk   == IF typ = 0 THEN DataBlock(bs, p + 3, out)
                      ELSE IF typ = 1 THEN HuffmanBlock(bs, p + 3, out, FixedLitLens, FixedDistLens)
                      ELSE IF typ = 2 THEN DynamicBlock(bs, p + 3, out)
                      ELSE Fail(p, out)
         IN  IF blk.err \/ final THEN blk ELSE InflateBlocks(bs, blk.p, blk.out)

Inflate(bytes) == InflateBlocks(BitsOfBytes(bytes), 0, <<>>)

\* the loop of DecompressDeltas: varints until the bytes run out; a varint
\* that fails to read ends the loop silently
RECURSIVE ReadVarints(_)
ReadVarints(buf) ==
    IF Len(buf) = 0 THEN <<>>
    ELSE LET r == readVarint(buf)
         IN  IF r.err THEN <<>> ELSE <<r.value>> \o ReadVarints(r.rest)

\* lines 195-208 of DecompressDeltas, z being what the flate reader gave
DeltasOf(z) ==
    IF z.err THEN [err |-> TRUE, deltas |-> <<>>]
    ELSE [err |-> FALSE, deltas |-> ReadVarints(z.out)]

\* DecompressDeltas: [err, deltas]
DecompressDeltas(compressed) ==
    IF Len(compressed) = 0 THEN [err |-> FALSE, deltas |-> <<>>]
    ELSE DeltasOf(Inflate(compressed))

(***************************************************************************)
(* Row decoder (decompressor.go).                                          *)
(***************************************************************************)
\* a CompressedRow
CompressedRow(eliasGenes, deltaValues, refCell, numGenes, maxGeneIndex) ==
    [EliasGenes |-> eliasGenes, DeltaValues |-> deltaValues, RefCell |-> refCell,
     NumGenes |-> numGenes, MaxGeneIndex |-> maxGeneIndex]

\* lines 99-105: Decode on the decoder NewEliasDecoder gave
GenesOf(dec) ==
    IF dec.err THEN [err |-> TRUE, indices |-> <<>>]
    ELSE [err |-> Decode(dec.d).err, indices |-> Decode(dec.d).seq]

\* lines 94-106: [err, indices]
DecodeGenes(compressedRow) ==
    IF Len(compressedRow.EliasGenes) > 0
    THEN GenesOf(NewEliasDecoder(compressedRow.EliasGenes))
    ELSE [err |-> FALSE, indices |-> <<>>]

\* line 115: the row is rebuilt from matrix[RefCell]
UsesReference(compressedRow, numCells) ==
    compressedRow.RefCell >= 0 /\ compressedRow.RefCell < numCells

\* lines 126-133: negative deltas become 0
ClampValues(deltas) == [i \in 1..Len(deltas) |-> IF deltas[i] < 0 THEN 0 ELSE deltas[i]]

\* lines 138-145: both sequences are cut to the shorter length
Truncate(row) ==
    IF Len(row.Indices) # Len(row.Values)
    THEN LET minLen == Min(Len(row.Indices), Len(row.Values))
         IN  [Indices |-> SubSeq(row.Indices, 1, minLen), Values |-> SubSeq(row.Values, 1, minLen)]
    ELSE row

\* lines 108-146 of decompressCell, given the decoded genes, the decoded
\* deltas and refCell, the value the read of matrix[RefCell] at line 117 yields
RowOfParts(compressedRow, refCell, numCells, genes, dd) ==
    IF genes.err THEN [err |-> TRUE, row |-> ZeroRow]
    ELSE IF Len(compressedRow.DeltaValues) > 0
    THEN IF dd.err THEN [err |-> TRUE, row |-> ZeroRow]
         ELSE IF UsesReference(compressedRow, numCells)
         THEN [err |-> FALSE,
               row |-> Truncate(ReconstructFromDelta(refCell, dd.deltas, genes.indices))]
         ELSE IF Len(dd.deltas) # Len(genes.indices)
         THEN [err |-> TRUE, row |-> ZeroRow]
         ELSE [err |-> FALSE,
               row |-> Truncate([Indices |-> genes.indices, Values |-> ClampValues(dd.deltas)])]
    ELSE [err |-> FALSE, row |-> Truncate([Indices |-> genes.indices, Values |-> <<>>])]

\* decompressCell: [err, row]
decompressCell(compressedRow, refCell, numCells) ==
    RowOfParts(compressedRow, refCell, numCells, DecodeGenes(compressedRow),
               DecompressDeltas(compressedRow.DeltaValues))

\* the call reaches line 117 and reads matrix[RefCell]: nothing failed before
\* it, and with a reference in range nothing fails after it
ReadsMatrix(compressedRow, numCells) ==
    /\ Len(compressedRow.DeltaValues) > 0
    /\ UsesReference(compressedRow, numCells)
    /\ ~decompressCell(compressedRow, ZeroRow, numCells).err

(***************************************************************************)
(* Row encoder and Compress, from the format description (the body of      *)
(* Compressor.Compress is not part of the sources): rows are encoded in    *)
(* index order, the pool of candidates being every earlier row.            *)
(***************************************************************************)
EncodeRow(rows, i, numGenes) ==
    LET row  == rows[i]
        pool == SubSeq(rows, 1, i - 1)
        ref  == FindBestReference(row, pool, [j \in 1..(i - 1) |-> j - 1])
        genes == Encode(NewEliasEncoder(numGenes, Len(row.Indices)), row.Indices)
        deltas == IF ref >= 0 THEN ComputeDelta(LosslessEncoder, row, rows[ref + 1])
                  ELSE row.Values
    IN  CompressedRow(genes.bytes, CompressDeltas(deltas), ref, Len(row.Indices), numGenes)

\* the CompressedData of a matrix; the two name lists are kept as their lengths
Compress(rows, numGenes) ==
    [NumCells  |-> Len(rows), NumGenes |-> numGenes, IsLossy |-> FALSE,
     GeneNames |-> numGenes, CellNames |-> Len(rows),
     CompressedRows |-> [i \in 1..Len(rows) |-> EncodeRow(rows, i, numGenes)]]

(***************************************************************************)
(* Decompressor.Decompress (decompressor.go): the main goroutine, the      *)
(* jobs channel, numWorkers worker goroutines, the mutex mu and the shared *)
(* matrix.  Cells are numbered from 0 as in the source.                    *)
(***************************************************************************)
VARIABLES
    input,          \* the matrix given to Compress or the file given to LoadCompressedData, else <<>>
    compressed,     \* the CompressedData being decompressed
    numWorkers,     \* runtime.NumCPU()
    jobs,           \* the buffered channel: the cell indices sent and not yet received
    closed,         \* close(jobs) was called
    pcMain,         \* where the main goroutine is: send, close, wait, return, done
    sendI,          \* the loop variable i of "Send jobs"
    pc,             \* where each worker is: recv, decode, report, publish, writing, exit
    cellIdx,        \* each worker's current job
    local,          \* each worker's (row, err) returned by decompressCell
    matrix,         \* each slot: st is zero (never written), writing, or done
    mu,             \* the worker holding the mutex, 0 when it is free
    vis,            \* each worker's slots whose write happens-before its next step
    decompressErr,  \* NoErr, or the cell the recorded error names
    crashed,        \* the process died of a runtime panic
    result,         \* what Decompress returned
    ef,             \* an Elias-Fano encode/decode run
    vi,             \* a varint write/read run
    fr              \* a FindBestReference call

decVars == <<input, compressed, numWorkers, jobs, closed, pcMain, sendI, pc, cellIdx,
             local, matrix, mu, vis, decompressErr, crashed, result>>

vars == <<input, compressed, numWorkers, jobs, closed, pcMain, sendI, pc, cellIdx,
          local, matrix, mu, vis, decompressErr, crashed, result, ef, vi, fr>>

NoErr == -1

Workers == 1..numWorkers

Cells == 0..(compressed.NumCells - 1)

RowOf(c) == compressed.CompressedRows[c + 1]

NoResult == [matrix |-> <<>>, GeneNames |-> 0, CellNames |-> 0, err |-> NoErr]

Idle == [kind |-> "none"]

\* the state at line 36 of Decompress for a container and a worker count
DecompressInit(cd, n) ==
    /\ compressed = cd
    /\ numWorkers = n
    /\ jobs = <<>>
    /\ closed = FALSE
    /\ pcMain = "send"
    /\ sendI = 0
    /\ pc = [w \in 1..n |-> "recv"]
    /\ cellIdx = [w \in 1..n |-> 0]
    /\ local = [w \in 1..n |-> [err |-> FALSE, row |-> ZeroRow]]
    /\ matrix = [c \in 0..(cd.NumCells - 1) |-> [st |-> "zero", row |-> ZeroRow]]
    /\ mu = 0
    /\ vis = [w \in 1..n |-> {}]
    /\ decompressErr = NoErr
    /\ crashed = FALSE
    /\ result = NoResult

\* line 66: jobs <- i (the buffer holds NumCells, so the send never blocks)
Send ==
    /\ ~crashed /\ pcMain = "send" /\ sendI < compressed.NumCells
    /\ Len(jobs) < compressed.NumCells
    /\ jobs' = Append(jobs, sendI)
    /\ sendI' = sendI + 1
    /\ UNCHANGED <<input, compressed, numWorkers, closed, pcMain, pc, cellIdx, local,
                   matrix, mu, vis, decompressErr, crashed, result, ef, vi, fr>>

\* line 68: close(jobs)
Close ==
    /\ ~crashed /\ pcMain = "send" /\ sendI >= compressed.NumCells
    /\ closed' = TRUE
    /\ pcMain' = "wait"
    /\ UNCHANGED <<input, compressed, numWorkers, jobs, sendI, pc, cellIdx, local,
                   matrix, mu, vis, decompressErr, crashed, result, ef, vi, fr>>

\* line 41: a worker receives the next job
Recv(w) ==
    /\ ~crashed /\ pc[w] = "recv" /\ jobs # <<>>
    /\ cellIdx' = [cellIdx EXCEPT ![w] = Head(jobs)]
    /\ jobs' = Tail(jobs)
    /\ pc' = [pc EXCEPT ![w] = "decode"]
    /\ UNCHANGED <<input, compressed, numWorkers, closed, pcMain, sendI, local,
                   matrix, mu, vis, decompressErr, crashed, result, ef, vi, fr>>

\* line 41 and 40: the channel is closed and drained, the worker returns (wg.Done)
WorkerExit(w) ==
    /\ ~crashed /\ pc[w] = "recv" /\ jobs = <<>> /\ closed
    /\ pc' = [pc EXCEPT ![w] = "exit"]
    /\ UNCHANGED <<input, compressed, numWorkers, jobs, closed, pcMain, sendI, cellIdx,
                   local, matrix, mu, vis, decompressErr, crashed, result, ef, vi, fr>>

\* The read of matrix[r] at line 117 takes no lock.  Unordered with the write
\* of line 58 it is a data race: during the write it yields the old row, the
\* new row, or a half-copied slice pair on which ReconstructFromDelta panics;
\* after a write that does not happen-before it, the old or the new row.
ReadOutcomes(w, r) ==
    IF matrix[r].st = "zero" THEN {[panic |-> FALSE, row |-> ZeroRow]}
    ELSE IF matrix[r].st = "writing"
    THEN {[panic |-> FALSE, row |-> ZeroRow], [panic |-> FALSE, row |-> matrix[r].row],
          [panic |-> TRUE, row |-> ZeroRow]}
    ELSE IF r \in vis[w] THEN {[panic |-> FALSE, row |-> matrix[r].row]}
    ELSE {[panic |-> FALSE, row |-> ZeroRow], [panic |-> FALSE, row |-> matrix[r].row]}

\* lines 42-48: decompressCell for the worker's job; indexing CompressedRows
\* past its end at line 43 is a runtime panic, which ends the process
DecodeCell(w) ==
    /\ ~crashed /\ pc[w] = "decode"
    /\ IF cellIdx[w] >= Len(compressed.CompressedRows)
       THEN /\ crashed' = TRUE
            /\ UNCHANGED <<local, pc>>
       ELSE LET cr == RowOf(cellIdx[w])
            IN  \E got \in (IF ReadsMatrix(cr, compressed.NumCells)
                            THEN ReadOutcomes(w, cr.RefCell)
                            ELSE {[panic |-> FALSE, row |-> ZeroRow]}) :
                   IF got.panic
                   THEN /\ crashed' = TRUE
                        /\ UNCHANGED <<local, pc>>
                   ELSE LET r == decompressCell(cr, got.row, compressed.NumCells)
                        IN  /\ local' = [local EXCEPT ![w] = r]
                            /\ pc' = [pc EXCEPT ![w] = IF r.err THEN "report" ELSE "publish"]
                            /\ UNCHANGED crashed
    /\ UNCHANGED <<input, compressed, numWorkers, jobs, closed, pcMain, sendI, cellIdx,
                   matrix, mu, vis, decompressErr, result, ef, vi, fr>>

\* lines 50-52 without the nil test: the last error wins
RecordedErrLast(current, cell) == cell

\* lines 50-52: only the first error is kept
RecordedErr(current, cell) == IF current = NoErr THEN cell ELSE current

\* lines 49-54: the error is recorded under the mutex
ReportErr(w) ==
    /\ ~crashed /\ pc[w] = "report" /\ mu = 0
    /\ decompressErr' = RecordedErr(decompressErr, cellIdx[w])
    /\ vis' = [vis EXCEPT ![w] = {c \in Cells : matrix[c].st = "done"}]
    /\ pc' = [pc EXCEPT ![w] = "recv"]
    /\ UNCHANGED <<input, compressed, numWorkers, jobs, closed, pcMain, sendI, cellIdx,
                   local, matrix, mu, crashed, result, ef, vi, fr>>

\* lines 57-58: mu.Lock(), and the copy of row into matrix[cellIdx] begins
PublishBegin(w) ==
    /\ ~crashed /\ pc[w] = "publish" /\ mu = 0
    /\ mu' = w
    /\ vis' = [vis EXCEPT ![w] = {c \in Cells : matrix[c].st = "done"}]
    /\ matrix' = [matrix EXCEPT ![cellIdx[w]] = [st |-> "writing", row |-> local[w].row]]
    /\ pc' = [pc EXCEPT ![w] = "writing"]
    /\ UNCHANGED <<input, compressed, numWorkers, jobs, closed, pcMain, sendI, cellIdx,
                   local, decompressErr, crashed, result, ef, vi, fr>>

\* lines 58-59: the copy is complete, mu.Unlock()
PublishEnd(w) ==
    /\ ~crashed /\ pc[w] = "writing" /\ mu = w
    /\ matrix' = [matrix EXCEPT ![cellIdx[w]].st = "done"]
    /\ vis' = [vis EXCEPT ![w] = @ \cup {cellIdx[w]}]
    /\ mu' = 0
    /\ pc' = [pc EXCEPT ![w] = "recv"]
    /\ UNCHANGED <<input, compressed, numWorkers, jobs, closed, pcMain, sendI, cellIdx,
                   local, decompressErr, crashed, result, ef, vi, fr>>

\* the matrix as the main goroutine reads it after wg.Wait()
FinalMatrix == [i \in 1..compressed.NumCells |-> matrix[i - 1].row]

\* lines 69-81: wg.Wait() returns once every worker is done; then the result
Return ==
    /\ ~crashed /\ pcMain = "wait" /\ \A w \in Workers : pc[w] = "exit"
    /\ result' = IF decompressErr # NoErr
                 THEN [NoResult EXCEPT !.err = decompressErr]
                 ELSE [matrix |-> FinalMatrix, GeneNames |-> compressed.GeneNames,
                       CellNames |-> compressed.CellNames, err |-> NoErr]
    /\ pcMain' = "done"
    /\ UNCHANGED <<input, compressed, numWorkers, jobs, closed, sendI, pc, cellIdx, local,
                   matrix, mu, vis, decompressErr, crashed, ef, vi, fr>>

DecompressNext ==
    \/ Send
    \/ Close
    \/ \E w \in Workers : Recv(w)
    \/ \E w \in Workers : WorkerExit(w)
    \/ \E w \in Workers : DecodeCell(w)
    \/ \E w \in Workers : ReportErr(w)
    \/ \E w \in Workers : PublishBegin(w)
    \/ \E w \in Workers : PublishEnd(w)
    \/ Return

(***************************************************************************)
(* Containers given to Decompress.  A container comes from a file, so its  *)
(* rows are any bytes; these are the row shapes the decoder distinguishes. *)
(***************************************************************************)
MaxCells == 2

MaxWorkers == 2

CatalogGenes == 4

\* a DEFLATE stream of one final stored block holding data
StoredStream(data) == <<1, Len(data), 0, 255 - Len(data), 255>> \o data

GenesBytes(indices) == Encode(NewEliasEncoder(CatalogGenes, Len(indices)), indices).bytes

\* a row of genes 0 and 1 with absolute values 2 and 1
PlainRow == CompressedRow(GenesBytes(<<0, 1>>), StoredStream(writeVarint(2) \o writeVarint(1)),
                          -1, 2, CatalogGenes)

\* a row of genes 0 and 1 holding the deltas 1 and 0 against row r
DeltaRow(r) == CompressedRow(GenesBytes(<<0, 1>>), StoredStream(writeVarint(1) \o writeVarint(0)),
                             r, 2, CatalogGenes)

\* a row whose delta bytes are what CompressDeltas writes for the value 3
BrokenRow == CompressedRow(<<>>, CompressDeltas(<<3>>), -1, 0, CatalogGenes)

EmptyRow == CompressedRow(<<>>, <<>>, -1, 0, CatalogGenes)

\* the rows a container may hold at cell c: references point at earlier cells
RowChoices(c) == {PlainRow, BrokenRow, EmptyRow} \cup {DeltaRow(r) : r \in 0..(c - 1)}

Containers ==
    UNION {{[NumCells  |-> n, NumGenes |-> CatalogGenes, IsLossy |-> FALSE,
             GeneNames |-> CatalogGenes, CellNames |-> n, CompressedRows |-> rows] :
            rows \in {q \in [1..n -> UNION {RowChoices(c) : c \in 0..(n - 1)}] :
                        \A i \in 1..n : q[i] \in RowChoices(i - 1)}} :
           n \in 1..MaxCells}

Init ==
    /\ input = <<>>
    /\ ef = Idle /\ vi = Idle /\ fr = Idle
    /\ \E cd \in Containers, n \in 1..MaxWorkers : DecompressInit(cd, n)

Next == DecompressNext

Spec == Init /\ [][Next]_vars

(***************************************************************************)
(* Properties of Decompress.                                               *)
(***************************************************************************)
\* worker w takes the step that runs decompressCell
Decodes(w) == pc[w] = "decode" /\ pc'[w] # "decode"

\* worker w's step runs decompressCell and reads matrix[RefCell] at line 117
ReadsReference(w) == Decodes(w) /\ ReadsMatrix(RowOf(cellIdx[w]), compressed.NumCells)

RefOf(w) == RowOf(cellIdx[w]).RefCell

\* C1: with any number of workers, a row that names a reference row is decoded
\* only after that reference row has been decoded and stored in the matrix.
C1_ReferenceDecodedFirst ==
    [][\A w \in Workers :
          (Decodes(w) /\ UsesReference(RowOf(cellIdx[w]), compressed.NumCells))
              => matrix[RefOf(w)].st = "done"]_vars

\* one step of sequential decoding, r being decompressCell's result for the next cell
RECURSIVE SeqFrom(_, _)
SeqStep(cd, done, r) ==
    IF r.err THEN [err |-> TRUE, matrix |-> <<>>]
    ELSE SeqFrom(cd, Append(done, r.row))

\* the rows of cd decoded one after another in index order, each reference
\* being read from the rows decoded so far
SeqFrom(cd, done) ==
    IF Len(done) = cd.NumCells THEN [err |-> FALSE, matrix |-> done]
    ELSE SeqStep(cd, done,
                 decompressCell(cd.CompressedRows[Len(done) + 1],
                                IF /\ UsesReference(cd.CompressedRows[Len(done) + 1], cd.NumCells)
                                   /\ cd.CompressedRows[Len(done) + 1].RefCell < Len(done)
                                THEN done[cd.CompressedRows[Len(done) + 1].RefCell + 1]
                                ELSE ZeroRow,
                                cd.NumCells))

SeqDecompress(cd) == SeqFrom(cd, <<>>)

\* C2: whatever the worker count and the interleaving, what Decompress returns
\* is what decoding the rows one by one in index order gives.
C2_SameAsSequential ==
    pcMain = "done" =>
        /\ (result.err # NoErr) = SeqDecompress(compressed).err
        /\ result.matrix = SeqDecompress(compressed).matrix

\* C3: a worker reads a matrix row only when no write of it is under way and
\* its publication is visible to that worker.
C3_ReadsAreProtected ==
    [][\A w \in Workers :
          ReadsReference(w) => (matrix[RefOf(w)].st # "writing" /\ RefOf(w) \in vis[w])]_vars

\* C4: every failing cell leaves an error recorded, the recorded error is never
\* replaced, and a return with an error recorded gives that error and no rows
\* or names.
C4_FirstErrorSurfaced ==
    [][/\ \A w \in Workers : (pc[w] = "report" /\ pc'[w] = "recv") => decompressErr' # NoErr
       /\ decompressErr # NoErr => decompressErr' = decompressErr
       /\ (pcMain = "wait" /\ pcMain' = "done" /\ decompressErr # NoErr)
              => result' = [matrix |-> <<>>, GeneNames |-> 0, CellNames |-> 0,
                            err |-> decompressErr]]_vars

\* Decompress returned the error of cell 1, recorded before cell 0 failed too
C4_Witness ==
    /\ pcMain = "done" /\ result.err = 1 /\ result.matrix = <<>>
    /\ compressed.NumCells = 2 /\ RowOf(0) = BrokenRow /\ RowOf(1) = BrokenRow

\* C5: once an error is recorded no worker starts decoding another row.
C5_NoDecodeAfterError ==
    [][decompressErr # NoErr => \A w \in Workers : ~(pc[w] = "recv" /\ pc'[w] = "decode")]_vars

(***************************************************************************)
(* The codecs run on their own: each of the three specifications below     *)
(* leaves Decompress at rest on an empty container.                        *)
(***************************************************************************)
NoContainer ==
    [NumCells |-> 0, NumGenes |-> 0, IsLossy |-> FALSE, GeneNames |-> 0, CellNames |-> 0,
     CompressedRows |-> <<>>]

AtRest == input = <<>> /\ DecompressInit(NoContainer, 1)

\* the strictly ascending sequences over 0..u-1
AscendingSeqs(u) == {SortedSeq(S) : S \in SUBSET (0..(u - 1))}

MaxUniverse == 6

InitEF ==
    /\ AtRest /\ vi = Idle /\ fr = Idle
    /\ \E u \in 1..MaxUniverse : \E q \in AscendingSeqs(u) :
          ef = [kind |-> "input", universe |-> u, sequence |-> q]

\* NewEliasEncoder(universe, len(sequence)).Encode(sequence)
EFEncode ==
    /\ ef.kind = "input"
    /\ ef' = [kind |-> "encoded", universe |-> ef.universe, sequence |-> ef.sequence,
              encoded |-> Encode(NewEliasEncoder(ef.universe, Len(ef.sequence)), ef.sequence)]
    /\ UNCHANGED <<decVars, vi, fr>>

\* NewEliasDecoder on the bytes Encode gave
EFNewDecoder ==
    /\ ef.kind = "encoded" /\ ~ef.encoded.err
    /\ ef' = [kind |-> "decoder", universe |-> ef.universe, sequence |-> ef.sequence,
              dec |-> NewEliasDecoder(ef.encoded.bytes)]
    /\ UNCHANGED <<decVars, vi, fr>>

\* Decode
EFDecode ==
    /\ ef.kind = "decoder" /\ ~ef.dec.err
    /\ ef' = [kind |-> "decoded", universe |-> ef.universe, sequence |-> ef.sequence,
              got |-> Decode(ef.dec.d)]
    /\ UNCHANGED <<decVars, vi, fr>>

\* Access(index), for the indices of the sequence and the two past its end
EFAccess ==
    /\ ef.kind = "decoder" /\ ~ef.dec.err
    /\ \E index \in 0..(Len(ef.sequence) + 1) :
          ef' = [kind |-> "accessed", universe |-> ef.universe, sequence |-> ef.sequence,
                 index |-> index, got |-> Access(ef.dec.d, index)]
    /\ UNCHANGED <<decVars, vi, fr>>

NextEF == EFEncode \/ EFNewDecoder \/ EFDecode \/ EFAccess

SpecEF == InitEF /\ [][NextEF]_vars

\* C7: a non-empty strictly ascending sequence below the universe, encoded and
\* then decoded, comes back unchanged.
C7_EliasFanoRoundTrip ==
    (ef.kind = "decoded" /\ ef.sequence # <<>>) => (~ef.got.err /\ ef.got.seq = ef.sequence)

\* C8: Access(i) on the encoding of a sequence gives its i-th element for
\* i < len, and an error for i >= len.
C8_AccessIsElement ==
    ef.kind = "accessed" =>
        IF ef.index < Len(ef.sequence)
        THEN ~ef.got.err /\ ef.got.value = ef.sequence[ef.index + 1]
        ELSE ef.got.err

VarintSpan == 70

\* the int32 values tried: around zero, around every power of two, the extremes
VarintSamples ==
    (-VarintSpan..VarintSpan)
        \cup {sign * (Pow2(k) + d) : sign \in {-1, 1}, k \in 0..30, d \in -1..1}
        \cup {Int32Max, Int32Min}

\* what follows the varint in the buffer
VarintSuffixes == {<<>>, <<0>>, <<129, 1>>}

InitVarint ==
    /\ AtRest /\ ef = Idle /\ fr = Idle
    /\ \E v \in VarintSamples, suffix \in VarintSuffixes :
          vi = [kind |-> "input", value |-> v, suffix |-> suffix]

\* writeVarint(buf, value)
VarintWrite ==
    /\ vi.kind = "input"
    /\ vi' = [kind |-> "written", value |-> vi.value, suffix |-> vi.suffix,
              bytes |-> writeVarint(vi.value)]
    /\ UNCHANGED <<decVars, ef, fr>>

\* readVarint on the bytes written, followed by the suffix
VarintRead ==
    /\ vi.kind = "written"
    /\ vi' = [kind |-> "read", value |-> vi.value, suffix |-> vi.suffix, bytes |-> vi.bytes,
              got |-> readVarint(vi.bytes \o vi.suffix)]
    /\ UNCHANGED <<decVars, ef, fr>>

NextVarint == VarintWrite \/ VarintRead

SpecVarint == InitVarint /\ [][NextVarint]_vars

\* the least number of 7-bit groups that hold the zig-zag value of v
ShortestLen(v) ==
    LET m == IF v >= 0 THEN v ELSE -(v + 1)
        fits == {n \in 1..4 : m < Pow2(7 * n - 1)}
    IN  IF fits = {} THEN 5 ELSE CHOOSE n \in fits : \A k \in fits : n <= k

\* C9: every int32 is written in 1 to 5 bytes, the fewest its zig-zag value
\* needs (one byte for 0, 1 and -1, five for the two extremes), and reading
\* the bytes back gives the value and consumes exactly those bytes.
C9_VarintRoundTrip ==
    /\ vi.kind \in {"written", "read"} =>
          /\ Len(vi.bytes) \in 1..5
          /\ Len(vi.bytes) = ShortestLen(vi.value)
          /\ \A i \in 1..Len(vi.bytes) : (vi.bytes[i] >= 128) = (i < Len(vi.bytes))
          /\ vi.value \in {0, 1, -1} => Len(vi.bytes) = 1
          /\ vi.value \in {Int32Max, Int32Min} => Len(vi.bytes) = 5
    /\ vi.kind = "read" =>
          /\ ~vi.got.err
          /\ vi.got.value = vi.value
          /\ vi.got.rest = vi.suffix

\* the smallest int32 was written in five bytes and read back, bytes following it
C9_Witness ==
    /\ vi.kind = "read" /\ vi.value = Int32Min /\ vi.suffix = <<129, 1>>
    /\ Len(vi.bytes) = 5 /\ vi.got.value = Int32Min /\ vi.got.rest = <<129, 1>>

RefGenes == 3

MaxCandidates == 2

\* a row holding these genes, each with the value 1
RowWith(genes) == [Indices |-> genes, Values |-> [i \in 1..Len(genes) |-> 1]]

\* gene lists: every subset of a few genes, and two long runs that put the
\* similarity to a one-gene row at 1/10 and at 1/9
RefRows ==
    {RowWith(SortedSeq(S)) : S \in SUBSET (0..(RefGenes - 1))}
        \cup {RowWith([i \in 1..10 |-> i - 1]), RowWith([i \in 1..9 |-> i - 1])}

\* the original indices of n candidates: the rows before the target, or a window of later ones
IndexLists(n) == {[j \in 1..n |-> j - 1], [j \in 1..n |-> 2 * j + 3]}

InitRef ==
    /\ AtRest /\ ef = Idle /\ vi = Idle
    /\ \E n \in 0..MaxCandidates : \E target \in RefRows : \E cands \in [1..n -> RefRows] :
       \E idx \in IndexLists(n) :
          fr = [kind |-> "input", target |-> target, candidates |-> cands,
                candidateIndices |-> idx]

\* FindBestReference(targetCell, candidates, candidateIndices)
RefFind ==
    /\ fr.kind = "input"
    /\ fr' = [kind |-> "done", target |-> fr.target, candidates |-> fr.candidates,
              candidateIndices |-> fr.candidateIndices,
              out |-> FindBestReference(fr.target, fr.candidates, fr.candidateIndices)]
    /\ UNCHANGED <<decVars, ef, vi>>

NextRef == RefFind

SpecRef == InitRef /\ [][NextRef]_vars

\* |A \cap B| and |A \cup B| of two gene lists, as a pair; two empty lists
\* count as similarity 1, one empty list as similarity 0
Overlap(a, b) ==
    IF Range(a) = {} /\ Range(b) = {} THEN <<1, 1>>
    ELSE <<Cardinality(Range(a) \cap Range(b)), Cardinality(Range(a) \cup Range(b))>>

\* the candidates whose similarity to the target exceeds 0.1
Eligible == {i \in 1..Len(fr.candidates) :
                10 * Overlap(fr.target.Indices, fr.candidates[i].Indices)[1]
                    > Overlap(fr.target.Indices, fr.candidates[i].Indices)[2]}

\* candidate i is at least as similar to the target as candidate j
AsSimilar(i, j) ==
    Overlap(fr.target.Indices, fr.candidates[i].Indices)[1]
            * Overlap(fr.target.Indices, fr.candidates[j].Indices)[2]
        >= Overlap(fr.target.Indices, fr.candidates[j].Indices)[1]
            * Overlap(fr.target.Indices, fr.candidates[i].Indices)[2]

\* C10: FindBestReference returns the original index of the candidate of
\* greatest Jaccard similarity above 0.1, the earliest in the pool on a tie,
\* and -1 when the pool is empty or no similarity exceeds 0.1; so a returned
\* reference lies below any index that bounds all the candidate indices.
C10_BestReference ==
    fr.kind = "done" =>
        /\ IF Eligible = {} THEN fr.out = -1
           ELSE fr.out = fr.candidateIndices[
                    CHOOSE i \in Eligible :
                       /\ \A j \in Eligible : AsSimilar(i, j)
                       /\ \A j \in Eligible : (j < i) => ~AsSimilar(j, i)]
        /\ \A t \in 0..(2 * MaxCandidates + 4) :
              (\A j \in 1..Len(fr.candidates) : fr.candidateIndices[j] < t) => fr.out < t

\* two candidates tie at similarity 1/2 and the earlier one is returned
C10_Witness ==
    /\ fr.kind = "done" /\ fr.target.Indices = <<0, 1>>
    /\ Len(fr.candidates) = 2
    /\ fr.candidates[1].Indices = <<0>> /\ fr.candidates[2].Indices = <<1>>
    /\ fr.out = fr.candidateIndices[1]

(***************************************************************************)
(* Compress followed by Decompress.                                        *)
(***************************************************************************)
RoundTripGenes == 2

MaxValue == 2

\* the sparse rows over RoundTripGenes genes with values 1..MaxValue
SparseRows ==
    UNION {{[Indices |-> SortedSeq(S), Values |-> v] : v \in [1..Cardinality(S) -> 1..MaxValue]} :
           S \in SUBSET (0..(RoundTripGenes - 1))}

InitRT ==
    /\ ef = Idle /\ vi = Idle /\ fr = Idle
    /\ \E n \in 1..MaxCells : \E rows \in [1..n -> SparseRows] : \E k \in 1..MaxWorkers :
          /\ input = rows
          /\ DecompressInit(Compress(rows, RoundTripGenes), k)

SpecRT == InitRT /\ [][Next]_vars

\* C6: in lossless mode, Decompress of what Compress gave returns no error
\* and the original matrix, row for row.
C6_LosslessRoundTrip ==
    pcMain = "done" => (result.err = NoErr /\ result.matrix = input)

(***************************************************************************)
(* JaccardSimilarity on its own.                                           *)
(***************************************************************************)
JaccardGenes == 4

\* the duplicate-free gene lists over JaccardGenes genes, in any order
RECURSIVE ListsOver(_)
ListsOver(S) == {<<>>} \cup UNION {{<<x>> \o q : q \in ListsOver(S \ {x})} : x \in S}

InitJaccard ==
    /\ AtRest /\ ef = Idle /\ vi = Idle
    /\ \E a \in ListsOver(0..(JaccardGenes - 1)), b \in ListsOver(0..(JaccardGenes - 1)) :
          fr = [kind |-> "pair", a |-> a, b |-> b]

\* JaccardSimilarity called on the pair both ways round and on a with itself
JaccardCall ==
    /\ fr.kind = "pair"
    /\ fr' = [kind |-> "similarity", a |-> fr.a, b |-> fr.b,
              ab |-> JaccardSimilarity(fr.a, fr.b),
              ba |-> JaccardSimilarity(fr.b, fr.a),
              aa |-> JaccardSimilarity(fr.a, fr.a)]
    /\ UNCHANGED <<decVars, ef, vi>>

NextJaccard == JaccardCall

SpecJaccard == InitJaccard /\ [][NextJaccard]_vars

\* the fraction f has the value n / d
FracIs(f, n, d) == f.den > 0 /\ f.num * d = n * f.den

\* C11: on duplicate-free gene lists JaccardSimilarity is |A \cap B| / |A \cup B|,
\* is symmetric, is 1 on a non-empty list with itself and on two empty lists,
\* and is 0 when exactly one list is empty.
C11_JaccardProperties ==
    fr.kind = "similarity" =>
        /\ (Range(fr.a) \cup Range(fr.b)) # {} =>
              FracIs(fr.ab, Cardinality(Range(fr.a) \cap Range(fr.b)),
                     Cardinality(Range(fr.a) \cup Range(fr.b)))
        /\ FracIs(fr.ab, fr.ba.num, fr.ba.den)
        /\ fr.a # <<>> => FracIs(fr.aa, 1, 1)
        /\ (fr.a = <<>> /\ fr.b = <<>>) => FracIs(fr.ab, 1, 1)
        /\ ((fr.a = <<>>) # (fr.b = <<>>)) => (FracIs(fr.ab, 0, 1) /\ FracIs(fr.ba, 0, 1))

\* two lists in different orders that share one gene of three
C11_Witness ==
    /\ fr.kind = "similarity" /\ fr.a = <<1, 0>> /\ fr.b = <<1, 2>>
    /\ fr.ab = Frac(1, 3) /\ fr.ba = Frac(1, 3) /\ fr.aa = Frac(2, 2)

(***************************************************************************)
(* CompressDeltas followed by DecompressDeltas.                            *)
(***************************************************************************)
DeltaSpan == 3

MaxDeltas == 2

\* the delta sequences of up to n values within DeltaSpan of zero
DeltaSeqs(n) == UNION {[1..k -> (-DeltaSpan)..DeltaSpan] : k \in 0..n}

InitDeltas ==
    /\ AtRest /\ ef = Idle /\ fr = Idle
    /\ \E d \in DeltaSeqs(MaxDeltas) : vi = [kind |-> "deltas", deltas |-> d]

\* CompressDeltas(deltas)
DeltasCompress ==
    /\ vi.kind = "deltas"
    /\ vi' = [kind |-> "compressed", deltas |-> vi.deltas, bytes |-> CompressDeltas(vi.deltas)]
    /\ UNCHANGED <<decVars, ef, fr>>

\* DecompressDeltas on the bytes CompressDeltas gave
DeltasDecompress ==
    /\ vi.kind = "compressed"
    /\ vi' = [kind |-> "decompressed", deltas |-> vi.deltas, bytes |-> vi.bytes,
              got |-> DecompressDeltas(vi.bytes)]
    /\ UNCHANGED <<decVars, ef, fr>>

NextDeltas == DeltasCompress \/ DeltasDecompress

SpecDeltas == InitDeltas /\ [][NextDeltas]_vars

\* C12: what CompressDeltas returns for a non-empty delta sequence is a DEFLATE
\* stream that inflates to the varints of the deltas, and DecompressDeltas of
\* what CompressDeltas returns gives the deltas back with no error.
C12_DeltasRoundTrip ==
    /\ (vi.kind = "compressed" /\ vi.deltas # <<>>) =>
          /\ ~Inflate(vi.bytes).err
          /\ Inflate(vi.bytes).out = Concat([i \in 1..Len(vi.deltas) |-> writeVarint(vi.deltas[i])])
    /\ vi.kind = "decompressed" => (~vi.got.err /\ vi.got.deltas = vi.deltas)

(***************************************************************************)
(* Decompress on what LoadCompressedData read from a file (io.go).  A file *)
(* is its header fields, its row-count field numRows and the rows its      *)
(* bytes hold; the rows are the last thing in it.                          *)
(***************************************************************************)
\* readCompressedRow fails on the i-th row: the bytes ended before it, or it
\* is the last thing in the file and its DeltaValues are empty, for then
\* reader.Read is called at the end of the data and gives io.EOF
RowReadFails(file, i) ==
    \/ i > Len(file.rows)
    \/ (i = Len(file.rows) /\ Len(file.rows[i].DeltaValues) = 0)

\* LoadCompressedData: [err, cd]; numRows is not compared with Header.NumCells
LoadCompressedData(file) ==
    IF \E i \in 1..file.numRows : RowReadFails(file, i)
    THEN [err |-> TRUE, cd |-> NoContainer]
    ELSE [err |-> FALSE,
          cd  |-> [NumCells  |-> file.NumCells, NumGenes |-> file.NumGenes, IsLossy |-> FALSE,
                   GeneNames |-> file.NumGenes, CellNames |-> file.NumCells,
                   CompressedRows |-> SubSeq(file.rows, 1, file.numRows)]]

\* a stored stream holding these deltas as varints
StoredDeltas(deltas) == StoredStream(Concat([i \in 1..Len(deltas) |-> writeVarint(deltas[i])]))

\* genes 0 and 1 with the stored values 0 and -1, no reference
ZeroValueRow == CompressedRow(GenesBytes(<<0, 1>>), StoredDeltas(<<0, -1>>), -1, 2, CatalogGenes)

\* genes 0 and 1 and no delta bytes at all, no reference
NoValuesRow == CompressedRow(GenesBytes(<<0, 1>>), <<>>, -1, 2, CatalogGenes)

\* the rows a file may hold at position c
FileRowChoices(c) == RowChoices(c) \cup {ZeroValueRow, NoValuesRow}

Files ==
    UNION {{[NumCells |-> n, NumGenes |-> CatalogGenes, numRows |-> m, rows |-> rows] :
            rows \in {q \in [1..m -> UNION {FileRowChoices(c) : c \in 0..(m - 1)}] :
                        \A i \in 1..m : q[i] \in FileRowChoices(i - 1)}} :
           n \in 1..MaxCells, m \in 0..MaxCells}

InitLoaded ==
    /\ ef = Idle /\ vi = Idle /\ fr = Idle
    /\ \E file \in Files, k \in 1..MaxWorkers :
          /\ ~LoadCompressedData(file).err
          /\ input = file
          /\ DecompressInit(LoadCompressedData(file).cd, k)

SpecLoaded == InitLoaded /\ [][Next]_vars

\* len(indices) = len(values), indices strictly ascending, every value > 0
SparseRowInvariant(row) ==
    /\ Len(row.Indices) = Len(row.Values)
    /\ \A i \in 1..(Len(row.Indices) - 1) : row.Indices[i] < row.Indices[i + 1]
    /\ \A i \in 1..Len(row.Values) : row.Values[i] > 0

\* C13: every row of a matrix Decompress returns without error has as many
\* values as indices, strictly ascending indices and only positive values.
C13_RowsAreSparseRows ==
    (pcMain = "done" /\ result.err = NoErr) =>
        \A i \in 1..Len(result.matrix) : SparseRowInvariant(result.matrix[i])

\* C14: when the row count of the file differs from the header's cell count,
\* no worker indexes a row that is not there, the process does not die of it,
\* and Decompress returns an error.
C14_RowCountMismatchRejected ==
    Len(compressed.CompressedRows) # compressed.NumCells =>
        /\ \A w \in Workers : pc[w] = "decode" => cellIdx[w] < Len(compressed.CompressedRows)
        /\ ~crashed
        /\ pcMain = "done" => result.err # NoErr

(***************************************************************************)
(* Encode on any input, the encoder built for any count.                   *)
(***************************************************************************)
MaxEncodeUniverse == 3

MaxEncodeLen == 2

InitEncode ==
    /\ AtRest /\ vi = Idle /\ fr = Idle
    /\ \E u \in 1..MaxEncodeUniverse, k \in 0..MaxEncodeLen, n \in 0..MaxEncodeLen :
       \E q \in [1..n -> 0..MaxEncodeUniverse] :
          ef = [kind |-> "call", universe |-> u, count |-> k, sequence |-> q]

\* NewEliasEncoder(universe, count).Encode(sequence)
EncodeCall ==
    /\ ef.kind = "call"
    /\ ef' = [kind |-> "returned", universe |-> ef.universe, count |-> ef.count,
              sequence |-> ef.sequence,
              out |-> Encode(NewEliasEncoder(ef.universe, ef.count), ef.sequence)]
    /\ UNCHANGED <<decVars, vi, fr>>

NextEncode == EncodeCall

SpecEncode == InitEncode /\ [][NextEncode]_vars

\* the input breaks a precondition of Encode
BreaksPrecondition(universe, count, sequence) ==
    \/ Len(sequence) # count
    \/ \E i \in 1..Len(sequence) : sequence[i] >= universe
    \/ \E i \in 2..Len(sequence) : sequence[i] <= sequence[i - 1]

\* C15: Encode returns an error and no bytes when the sequence has not the
\* encoder's count (an empty sequence with a positive count included), holds
\* a value not below the universe, or is not strictly ascending; it returns no
\* error otherwise.
C15_EncodeRejectsBadInput ==
    ef.kind = "returned" =>
        IF BreaksPrecondition(ef.universe, ef.count, ef.sequence)
        THEN ef.out.err /\ ef.out.bytes = <<>>
        ELSE ~ef.out.err

(***************************************************************************)
(* decompressCell on one row, the matrix holding its reference row.        *)
(***************************************************************************)
\* the row the encoder emits for target against reference row 0, its deltas
\* in a well-formed DEFLATE stream
DeltaRowFor(target, reference) ==
    CompressedRow(Encode(NewEliasEncoder(RoundTripGenes, Len(target.Indices)),
                         target.Indices).bytes,
                  StoredDeltas(ComputeDelta(LosslessEncoder, target, reference)),
                  0, Len(target.Indices), RoundTripGenes)

\* a row without a reference: these genes, these delta bytes
AbsoluteRow(genes, deltaBytes) ==
    CompressedRow(Encode(NewEliasEncoder(RoundTripGenes, Len(genes)), genes).bytes,
                  deltaBytes, -1, Len(genes), RoundTripGenes)

\* the (row, reference row) pairs decoded: every target against every
\* reference, and every gene list with no delta bytes or with any few deltas
CellInputs ==
    {[row |-> DeltaRowFor(t, r), ref |-> r] : t \in SparseRows, r \in SparseRows}
        \cup {[row |-> AbsoluteRow(t.Indices, b), ref |-> ZeroRow] :
                t \in SparseRows, b \in {<<>>} \cup {StoredDeltas(d) : d \in DeltaSeqs(MaxDeltas)}}

InitCell ==
    /\ AtRest /\ ef = Idle /\ vi = Idle
    /\ \E c \in CellInputs : fr = [kind |-> "cell", row |-> c.row, ref |-> c.ref]

\* decompressCell(row, matrix, ...) with matrix[0] = ref, len(matrix) = 1
CellDecode ==
    /\ fr.kind = "cell"
    /\ fr' = [kind |-> "decoded", row |-> fr.row, ref |-> fr.ref,
              out |-> decompressCell(fr.row, fr.ref, 1)]
    /\ UNCHANGED <<decVars, ef, vi>>

NextCell == CellDecode

SpecCell == InitCell /\ [][NextCell]_vars

\* the sorted union of two gene lists
SortedUnion(a, b) == SortedSeq(Range(a) \cup Range(b))

\* the value of gene g in a row, 0 when absent
ValueAt(row, g) ==
    IF \E i \in 1..Len(row.Indices) : row.Indices[i] = g
    THEN row.Values[CHOOSE i \in 1..Len(row.Indices) : row.Indices[i] = g]
    ELSE 0

\* reference + deltas over the genes of union, the i-th delta going with the
\* i-th gene, an entry kept iff its sum is > 0
SumOverUnion(reference, deltas, union) ==
    LET kept == {i \in 1..Min(Len(union), Len(deltas)) :
                    ValueAt(reference, union[i]) + deltas[i] > 0}
        at(j) == CHOOSE i \in kept : Cardinality({k \in kept : k < i}) = j - 1
    IN  [Indices |-> [j \in 1..Cardinality(kept) |-> union[at(j)]],
         Values  |-> [j \in 1..Cardinality(kept) |->
                         ValueAt(reference, union[at(j)]) + deltas[at(j)]]]

\* C16: a row with a reference decodes to reference + deltas over the sorted
\* union of its own decoded genes and the reference row's genes.
C16_DeltasPairedWithUnion ==
    (fr.kind = "decoded" /\ fr.row.RefCell >= 0) =>
        /\ ~fr.out.err
        /\ fr.out.row = SumOverUnion(fr.ref, DecompressDeltas(fr.row.DeltaValues).deltas,
                                     SortedUnion(DecodeGenes(fr.row).indices, fr.ref.Indices))

\* C17: a row without a reference whose genes and delta bytes both decode is
\* an error when the deltas are not as many as the genes (no delta bytes at
\* all included), and otherwise keeps every gene and gets one value per gene.
C17_LengthMismatchIsError ==
    (/\ fr.kind = "decoded" /\ fr.row.RefCell = -1
     /\ ~DecodeGenes(fr.row).err /\ ~DecompressDeltas(fr.row.DeltaValues).err) =>
        IF Len(DecompressDeltas(fr.row.DeltaValues).deltas) # Len(DecodeGenes(fr.row).indices)
        THEN fr.out.err
        ELSE /\ ~fr.out.err
             /\ fr.out.row.Indices = DecodeGenes(fr.row).indices
             /\ Len(fr.out.row.Values) = Len(fr.out.row.Indices)

(***************************************************************************)
(* NewEliasEncoder on its own.                                             *)
(***************************************************************************)
MaxLowUniverse == 40

MaxLowCount == 4

InitLowBits ==
    /\ AtRest /\ vi = Idle /\ fr = Idle
    /\ \E u \in (0..MaxLowUniverse) \cup {1000000}, k \in 0..MaxLowCount :
          ef = [kind |-> "sizes", universe |-> u, count |-> k]

\* NewEliasEncoder(universe, count)
NewEncoderCall ==
    /\ ef.kind = "sizes"
    /\ ef' = [kind |-> "encoder", universe |-> ef.universe, count |-> ef.count,
              e |-> NewEliasEncoder(ef.universe, ef.count)]
    /\ UNCHANGED <<decVars, vi, fr>>

NextLowBits == NewEncoderCall

SpecLowBits == InitLowBits /\ [][NextLowBits]_vars

\* floor(log2(u / k)) for u >= k > 0: the greatest e with 2^e * k <= u
FloorLog2Ratio(u, k) == CHOOSE e \in 0..20 : Pow2(e) * k <= u /\ Pow2(e + 1) * k > u

\* max(0, floor(log2(u/k)) - 1) when k > 0 and u > k, else 0
SpecLowBitsOf(u, k) ==
    IF k > 0 /\ u > k
    THEN (IF FloorLog2Ratio(u, k) > 1 THEN FloorLog2Ratio(u, k) - 1 ELSE 0)
    ELSE 0

\* C18: NewEliasEncoder sets lowBits to max(0, floor(log2(u/k)) - 1) when k > 0
\* and u > k and to 0 otherwise: 0 for u = 8, k = 3 and 16 for u = 1000000, k = 4.
C18_LowBitsFormula ==
    ef.kind = "encoder" =>
        /\ ef.e.lowBits = SpecLowBitsOf(ef.universe, ef.count)
        /\ (ef.universe = 8 /\ ef.count = 3) => ef.e.lowBits = 0
        /\ (ef.universe = 1000000 /\ ef.count = 4) => ef.e.lowBits = 16

(***************************************************************************)
(* Termination of Decompress.  The Go scheduler runs every goroutine that  *)
(* can take a step: weak fairness for the main goroutine and each worker.  *)
(***************************************************************************)
\* the steps of the main goroutine, lines 65-81
MainNext == Send \/ Close \/ Return

\* the steps of one worker goroutine other than the call of decompressCell
WorkerMoves(w) ==
    \/ Recv(w)
    \/ WorkerExit(w)
    \/ ReportErr(w)
    \/ PublishBegin(w)
    \/ PublishEnd(w)

\* decompressCell returns to worker w: what a DecodeCell(w) step that does not
\* panic does to pc.  DecodeCell(w) is enabled exactly when the worker is at
\* "decode" in a live process, and each of its steps either is such a step or
\* ends the process, so weak fairness of this action on pc is weak fairness
\* of DecodeCell(w).
DecodeReturns(w) ==
    /\ ~crashed /\ pc[w] = "decode"
    /\ \E p \in {"report", "publish"} : pc' = [pc EXCEPT ![w] = p]

Fairness ==
    /\ WF_vars(MainNext)
    /\ \A w \in 1..MaxWorkers :
          /\ WF_vars(w \in Workers /\ WorkerMoves(w))
          /\ WF_pc(w \in Workers /\ DecodeReturns(w))

SpecFair == Init /\ [][Next]_vars /\ Fairness

SpecLoadedFair == InitLoaded /\ [][Next]_vars /\ Fairness

\* the workers that hold a job
Busy == {w \in Workers : pc[w] \in {"decode", "report", "publish", "writing"}}

\* the channel holds the last indices sent, in order; the indices before them
\* were each received once, and no two workers hold the same one
JobsTakenOnce ==
    /\ \A i \in 1..Len(jobs) : jobs[i] = sendI - Len(jobs) + i - 1
    /\ \A w \in Busy : cellIdx[w] < sendI - Len(jobs)
    /\ \A w1, w2 \in Busy : w1 # w2 => cellIdx[w1] # cellIdx[w2]

\* the buffer has room whenever the producer is about to send
ProducerNeverBlocks ==
    (pcMain = "send" /\ sendI < compressed.NumCells) => Len(jobs) < compressed.NumCells

\* once Decompress has returned every index was sent and received, every worker
\* has exited, and without an error every row is stored
NothingSkipped ==
    pcMain = "done" =>
        /\ sendI = compressed.NumCells /\ jobs = <<>> /\ closed
        /\ \A w \in Workers : pc[w] = "exit"
        /\ decompressErr = NoErr => \A c \in Cells : matrix[c].st = "done"

ProtocolSafety == JobsTakenOnce /\ ProducerNeverBlocks /\ NothingSkipped

\* a worker takes the head of the channel and nothing else
TakesHead ==
    [][\A w \in Workers :
          (pc[w] = "recv" /\ pc'[w] = "decode")
              => (cellIdx'[w] = Head(jobs) /\ jobs' = Tail(jobs))]_vars

\* Decompress returns unless a worker goroutine panics
TerminatesUnlessPanic == <>(pcMain = "done" \/ crashed)

\* C19: Decompress always terminates, whatever the container and the worker
\* count: every index is taken by exactly one worker, the producer never
\* blocks, every worker exits once the channel is closed, the wait returns.
C19_DecompressTerminates ==
    /\ []ProtocolSafety
    /\ <>(pcMain = "done" /\ \A w \in Workers : pc[w] = "exit")

====
